---- MODULE Spec2Model ----
(***************************************************************************)
(* Scheduling and job-queue core of the DGS scraper server:                *)
(*   - the schedule calculator (utils/scheduler, server.js:1225-1397),     *)
(*   - the AutoScheduler singleton (services/auto-scheduler.js),           *)
(*   - the scrape endpoints with their single worker slot                  *)
(*     (routes/scraping.js and the monolithic server.js).                  *)
(* Instants are minutes of local time since 1970-01-01 00:00; the code     *)
(* only inspects hours and calendar fields, and setHours(4,0,0,0) clears   *)
(* everything below the hour.  Daylight-saving shifts are not modelled.    *)
(***************************************************************************)
EXTENDS Integers, Sequences, FiniteSets, TLC

VARIABLES
    now,        \* the clock: what getCurrentDate()/new Date() returns
    calcIn,     \* settings object handed to the schedule calculator
    calcOut,    \* outcome of calculateNextScheduledTime / getMillisecondsUntilNext
    \* persistent tables
    email_settings,     \* rows of table email_settings, in insertion order
    counties,           \* county code -> enabled flag
    jobs,               \* rows of table scraping_jobs; the row's id is its index
    \* AutoScheduler singleton and the event loop around it
    timeoutId,          \* this.timeoutId: id of a timer, or NoTimer
    isScheduled,        \* this.isScheduled
    lastScheduledTime,  \* this.lastScheduledTime, or NoTime
    timers,             \* timers pending in the event loop: [id, fire, cb]
    calls,              \* asynchronous calls suspended at an await, per slot
    lastResult,         \* how the most recently finished call ended
    requests,           \* number of API requests accepted so far
    faults,             \* number of database operations that have failed so far
    rearms,             \* driver of two successive scheduleNext() calls: what the
                        \* calls completed so far left pending
    \* scrape endpoints and their worker slot
    build,                  \* which server is running: "monolith" (server.js) or "routes"
    currentScrapingProcess, \* index into procs, or NoProcess for null
    currentScrapingJob,     \* job id, or NoJob for null
    procs,                  \* every child process spawned so far
    reqs,                   \* scrape requests suspended at an await, per slot
    reply,                  \* the most recent HTTP reply of a scrape endpoint
    nextPending             \* what the latest getNextPendingJob() resolved with: a
                            \* job id, NoJob for undefined, NotCalled before any call

calcVars  == <<calcIn, calcOut>>
tableVars == <<email_settings, counties, jobs>>
schedVars == <<timeoutId, isScheduled, lastScheduledTime, timers, calls, lastResult>>
apiVars   == <<requests, faults>>
driverVars == <<rearms>>
queueVars == <<build, nextPending, currentScrapingProcess, currentScrapingJob, procs, reqs, reply>>

Null == "null"

----------------------------------------------------------------------------
(* Bounds *)

\* number of consecutive days, starting 2024-01-01, from which "now" is drawn
NumDays == 366

\* rows the scraping_jobs table may grow to
MaxJobs == 4

\* asynchronous scheduler-side calls that may be suspended at the same time
MaxCalls == 2

\* API requests (settings saves, county updates) accepted in one behaviour
MaxRequests == 2

\* database operations that may fail in one behaviour
MaxFaults == 1

\* minutes after the start instant beyond which the clock is not advanced
HorizonMinutes == 150

\* scrape requests that may be suspended at an await at the same time
MaxReqs == 2

\* job rows, and so workers, the scrape endpoints may create
MaxQueueJobs == 2

\* hour of the day at which every run is scheduled
ScheduleHour == 4

\* fallback retry delay of scheduleNext, in minutes (60 * 60 * 1000 ms)
FallbackMinutes == 60

----------------------------------------------------------------------------
(* JavaScript Date, local time, proleptic Gregorian calendar *)

MinutesPerDay == 24 * 60

\* day number (days since 1970-01-01) of year y, month m (1..12), day d;
\* linear in d, so day 0 and days past the month's end overflow as in JS
DaysFromCivil(y, m, d) ==
    LET yy  == IF m <= 2 THEN y - 1 ELSE y
        era == yy \div 400
        yoe == yy - era * 400
        mp  == IF m > 2 THEN m - 3 ELSE m + 9
        doy == (153 * mp + 2) \div 5 + d - 1
        doe == yoe * 365 + yoe \div 4 - yoe \div 100 + doy
    IN  era * 146097 + doe - 719468

\* calendar fields of day number z: year, month (0..11 as in JS), date
CivilFromDays(z) ==
    LET zz  == z + 719468
        era == zz \div 146097
        doe == zz - era * 146097
        yoe == (doe - doe \div 1460 + doe \div 36524 - doe \div 146096) \div 365
        doy == doe - (365 * yoe + yoe \div 4 - yoe \div 100)
        mp  == (5 * doy + 2) \div 153
        d   == doy - (153 * mp + 2) \div 5 + 1
        m   == IF mp < 10 THEN mp + 3 ELSE mp - 9
    IN  [year |-> (yoe + era * 400) + (IF m <= 2 THEN 1 ELSE 0),
         month |-> m - 1, date |-> d]

\* first day of the window from which the clock's instants are drawn
WindowStart == DaysFromCivil(2024, 1, 1)

\* the calendar fields of every day the model's dates can fall on, tabulated
Calendar == [z \in (WindowStart - 31) .. (WindowStart + NumDays + 90) |-> CivilFromDays(z)]

\* ECMAScript MakeDay(year, month, date): month 0..11 and beyond, date any integer
MakeDay(year, month, date) ==
    DaysFromCivil(year + (month \div 12), (month % 12) + 1, 1) + date - 1

getFullYear(t) == Calendar[t \div MinutesPerDay].year
getMonth(t)    == Calendar[t \div MinutesPerDay].month
getDate(t)     == Calendar[t \div MinutesPerDay].date
getHours(t)    == (t % MinutesPerDay) \div 60
\* 1970-01-01 was a Thursday (4); 0 is Sunday
getDay(t)      == ((t \div MinutesPerDay) + 4) % 7

\* date.setHours(h, 0, 0, 0)
setHours(t, h) == (t \div MinutesPerDay) * MinutesPerDay + h * 60
\* date.setDate(d): same year and month, time of day kept
setDate(t, d) == MakeDay(getFullYear(t), getMonth(t), d) * MinutesPerDay + (t % MinutesPerDay)
\* date.setFullYear(y, m, d): time of day kept
setFullYear(t, y, m, d) == MakeDay(y, m, d) * MinutesPerDay + (t % MinutesPerDay)

\* String.prototype.toLowerCase on the day names the model uses
toLowerCase(s) ==
    CASE s = "Monday" -> "monday"
      [] s = "SUNDAY" -> "sunday"
      [] OTHER -> s

----------------------------------------------------------------------------
(* Schedule calculator: utils/scheduler *)

Ok(t)    == [ok |-> TRUE, time |-> t, error |-> Null]
Throw(e) == [ok |-> FALSE, time |-> 0, error |-> e]

dayMap ==
    [d \in {"sunday", "monday", "tuesday", "wednesday", "thursday", "friday", "saturday"} |->
        CASE d = "sunday" -> 0 [] d = "monday" -> 1 [] d = "tuesday" -> 2
          [] d = "wednesday" -> 3 [] d = "thursday" -> 4 [] d = "friday" -> 5
          [] d = "saturday" -> 6]

\* variant: today's run is skipped only when the hour is past 4, not at 4
calculateNextWeeklyTime_strictHour(t, weeklyDay) ==
    IF toLowerCase(weeklyDay) \notin DOMAIN dayMap
    THEN Throw("Invalid weekly day")
    ELSE LET targetDay  == dayMap[toLowerCase(weeklyDay)]
             nextDate   == setHours(t, ScheduleHour)
             diff       == targetDay - getDay(t)
             daysUntilTarget ==
                 IF diff < 0 \/ (diff = 0 /\ getHours(t) > ScheduleHour)
                 THEN diff + 7 ELSE diff
         IN  Ok(setDate(nextDate, getDate(nextDate) + daysUntilTarget))

calculateNextWeeklyTime(t, weeklyDay) ==
    IF toLowerCase(weeklyDay) \notin DOMAIN dayMap
    THEN Throw("Invalid weekly day")
    ELSE LET targetDay  == dayMap[toLowerCase(weeklyDay)]
             nextDate   == setHours(t, ScheduleHour)
             currentDay == getDay(t)
             diff       == targetDay - currentDay
             daysUntilTarget ==
                 IF diff < 0 \/ (diff = 0 /\ getHours(t) >= ScheduleHour)
                 THEN diff + 7 ELSE diff
         IN  Ok(setDate(nextDate, getDate(nextDate) + daysUntilTarget))

\* variant: the requested day is used without clamping to the month's length
getValidDayForMonth_noClamp(year, month, requestedDay) == requestedDay

getValidDayForMonth(year, month, requestedDay) ==
    LET lastDayOfMonth == Calendar[MakeDay(year, month + 1, 0)].date
    IN  IF requestedDay <= lastDayOfMonth THEN requestedDay ELSE lastDayOfMonth

calculateNextMonthlyTime(t, monthlyDay) ==
    IF monthlyDay < 1 \/ monthlyDay > 31
    THEN Throw("Invalid monthly day")
    ELSE LET nextDate == setHours(t, ScheduleHour)
             roll == \/ getDate(t) > monthlyDay
                     \/ (getDate(t) = monthlyDay /\ getHours(t) >= ScheduleHour)
             m1 == IF roll THEN getMonth(t) + 1 ELSE getMonth(t)
             targetMonth == IF m1 > 11 THEN 0 ELSE m1
             targetYear  == IF m1 > 11 THEN getFullYear(t) + 1 ELSE getFullYear(t)
             targetDay   == getValidDayForMonth(targetYear, targetMonth, monthlyDay)
         IN  Ok(setFullYear(nextDate, targetYear, targetMonth, targetDay))

calculateNextScheduledTime(t, settings) ==
    IF settings.frequency = "weekly"
    THEN calculateNextWeeklyTime(t, settings.weeklyDay)
    ELSE IF settings.frequency = "monthly"
    THEN calculateNextMonthlyTime(t, settings.monthlyDay)
    ELSE Throw("Unsupported frequency")

\* nextTime.getTime() - now.getTime(); both reads of the clock happen in one
\* synchronous block and see the same instant
getMillisecondsUntilNext(t, settings) ==
    LET nextTime == calculateNextScheduledTime(t, settings)
    IN  IF nextTime.ok THEN [ok |-> TRUE, ms |-> nextTime.time - t, error |-> Null]
        ELSE [ok |-> FALSE, ms |-> 0, error |-> nextTime.error]

----------------------------------------------------------------------------
(* Inputs of the calculator *)

\* minutes of the day probed: midnight, around 04:00, mid-morning, end of day
TimesOfDay == {0, 3 * 60 + 59, 4 * 60, 4 * 60 + 1, 10 * 60, 23 * 60 + 59}

NowSet == {d * MinutesPerDay + m : d \in WindowStart .. (WindowStart + NumDays - 1), m \in TimesOfDay}

WeekDays == {"sunday", "monday", "tuesday", "wednesday", "thursday", "friday", "saturday"}

Config(f, w, d) == [frequency |-> f, weeklyDay |-> w, monthlyDay |-> d]

ConfigSet ==
    {Config("weekly", w, 1) : w \in WeekDays \cup {"Monday", "funday"}}
    \cup {Config("monthly", "monday", d) : d \in 0 .. 32}
    \cup {Config(f, "monday", 1) : f \in {"daily", "hourly"}}

NoCalc == [state |-> "none"]

CalcInit ==
    /\ now \in NowSet
    /\ calcIn \in ConfigSet
    /\ calcOut = NoCalc

\* one evaluation of the calculator and of the delay helper at the clock's instant
Calculate ==
    /\ calcOut = NoCalc
    /\ calcOut' = [state |-> "done",
                   next |-> calculateNextScheduledTime(now, calcIn),
                   delay |-> getMillisecondsUntilNext(now, calcIn)]
    /\ UNCHANGED <<now, calcIn, tableVars, schedVars, apiVars, driverVars, queueVars>>

----------------------------------------------------------------------------
(* Tables *)

NoTime == 0 - 1

Counties == {"01", "02"}
\* ORDER BY name: Alameda (01), Alpine (02)
CountyOrder == <<"01", "02">>

\* variant without the WHERE clause: every county is returned
getEnabledCounties_all == CountyOrder

\* SELECT ... FROM counties WHERE enabled = TRUE ORDER BY name
getEnabledCounties == SelectSeq(CountyOrder, LAMBDA k : counties[k])

DefaultSettings ==
    [emails |-> "", frequency |-> "weekly", weeklyDay |-> "monday", monthlyDay |-> 1,
     lastJobRun |-> NoTime]

\* SELECT ... ORDER BY updated_at DESC LIMIT 1, defaults when the table is empty
getEmailSettings ==
    IF Len(email_settings) = 0 THEN DefaultSettings
    ELSE email_settings[Len(email_settings)]

\* settings.emails.trim().length === 0, together with !settings.emails
Blank(e) == e \in {"", "  "}

\* row inserted by createScrapingJob of database/jobs.js
PendingJob(countyId) ==
    [county_id |-> countyId, status |-> "pending", started_at |-> now,
     completed_at |-> NoTime, error_message |-> Null]

----------------------------------------------------------------------------
(* AutoScheduler: services/auto-scheduler.js *)

NoTimer == 0

\* outcomes of a database operation that are still possible
DbOutcomes == IF faults < MaxFaults THEN BOOLEAN ELSE {TRUE}
Fault(dbOk) == faults' = IF dbOk THEN faults ELSE faults + 1

\* largest delay setTimeout honours (2^31 - 1 ms), in whole minutes
TimeoutMaxMinutes == 2147483647 \div 60000

\* setTimeout replaces a delay below 1 ms or above 2^31 - 1 ms by 1 ms
TimerDelay(d) == IF d < 0 \/ d > TimeoutMaxMinutes THEN 0 ELSE d

NoBody == [emails |-> "", frequency |-> "", weeklyDay |-> "", monthlyDay |-> 0]

\* todo: counties still to be enqueued by a run; queued: the jobIds list of
\* queueAllEnabledCounties, kept by executeScheduledRun until it returns
IdleCall ==
    [pc |-> "idle", kind |-> Null, todo |-> <<>>, queued |-> <<>>, body |-> NoBody,
     existing |-> DefaultSettings, lastJobRun |-> NoTime]

Slots == 1 .. MaxCalls
AllIdle == \A c \in Slots : calls[c].pc = "idle"
IsFreeSlot(c) == calls[c].pc = "idle" /\ \A d \in Slots : d < c => calls[d].pc # "idle"

\* handle returned by setTimeout: the smallest id that names no pending timer
\* and is not still held in this.timeoutId
NewTimerId(pending, held) ==
    CHOOSE i \in 1 .. (Cardinality(pending) + 2) :
        /\ i # held /\ \A t \in pending : t.id # i
        /\ \A j \in 1 .. (i - 1) : j = held \/ \E t \in pending : t.id = j

\* variant: stop() forgets the handle without clearing the timer
stop_noClear(pending) == pending

\* stop(): clearTimeout on the timer this.timeoutId refers to, if any
stop(pending) == IF timeoutId # NoTimer THEN {t \in pending : t.id # timeoutId} ELSE pending

\* synchronous head of scheduleNext(): this.stop(), then the settings read is
\* issued and the call suspends at its await
scheduleNext_begin(c, kind, pending) ==
    /\ timers' = stop(pending)
    /\ timeoutId' = NoTimer
    /\ isScheduled' = IF timeoutId # NoTimer THEN FALSE ELSE isScheduled
    /\ calls' = [calls EXCEPT ![c] = [IdleCall EXCEPT !.pc = "settings", !.kind = kind]]
    /\ UNCHANGED <<lastScheduledTime, lastResult>>

\* the finally block of executeScheduledRun: scheduleNext() is entered while
\* queuedJobs, the list returned by queueAllEnabledCounties, is still held
executeScheduledRun_finally(c, queuedJobs) ==
    /\ timers' = stop(timers)
    /\ timeoutId' = NoTimer
    /\ isScheduled' = IF timeoutId # NoTimer THEN FALSE ELSE isScheduled
    /\ calls' = [calls EXCEPT ![c] = [IdleCall EXCEPT !.pc = "settings", !.kind = "run",
                                                      !.queued = queuedJobs]]
    /\ UNCHANGED <<lastScheduledTime, lastResult>>

Result(c, outcome) ==
    [kind |-> calls[c].kind, outcome |-> outcome, http |-> IF calls[c].kind = "put" THEN 200 ELSE 0]

\* variant: the catch block only logs
scheduleNext_fallback_logOnly(c) ==
    /\ lastResult' = Result(c, "fallback")
    /\ UNCHANGED <<timers, timeoutId, isScheduled, lastScheduledTime>>

\* catch block of scheduleNext: retry in one hour
scheduleNext_fallback(c) ==
    LET id == NewTimerId(timers, timeoutId) IN
    /\ timers' = timers \cup {[id |-> id, fire |-> now + FallbackMinutes, cb |-> "scheduleNext"]}
    /\ timeoutId' = id
    /\ lastResult' = Result(c, "fallback")
    /\ UNCHANGED <<isScheduled, lastScheduledTime>>

\* the timer for the computed fire time is armed
scheduleNext_arm(c, settings) ==
    LET id == NewTimerId(timers, timeoutId)
        nextTime == calculateNextScheduledTime(now, settings)
        msUntilNext == getMillisecondsUntilNext(now, settings)
    IN  /\ lastScheduledTime' = nextTime.time
        /\ timers' = timers \cup {[id |-> id, fire |-> now + TimerDelay(msUntilNext.ms),
                                   cb |-> "executeScheduledRun"]}
        /\ timeoutId' = id
        /\ isScheduled' = TRUE
        /\ lastResult' = Result(c, "armed")

\* start(): the first call made on the singleton
Start ==
    /\ AllIdle /\ lastResult.kind = Null
    /\ scheduleNext_begin(1, "start", timers)
    /\ UNCHANGED <<now, calcVars, tableVars, apiVars, driverVars, queueVars>>

\* scheduleNext() resumes from `await getEmailSettings()` and runs to its end
scheduleNext_resume(c) ==
    /\ calls[c].pc = "settings"
    /\ \E dbOk \in DbOutcomes :
        /\ Fault(dbOk)
        /\ LET settings == getEmailSettings IN
            IF ~dbOk THEN scheduleNext_fallback(c)
            ELSE IF Blank(settings.emails)
            THEN /\ lastResult' = Result(c, "disabled")
                 /\ UNCHANGED <<timeoutId, isScheduled, lastScheduledTime, timers>>
            ELSE IF ~calculateNextScheduledTime(now, settings).ok
            THEN scheduleNext_fallback(c)
            ELSE scheduleNext_arm(c, settings)
    /\ calls' = [calls EXCEPT ![c] = IdleCall]
    /\ UNCHANGED <<now, calcVars, tableVars, requests, queueVars>>

ScheduleNextResume(c) == scheduleNext_resume(c) /\ UNCHANGED driverVars

\* a due timer fires: the fallback timer calls scheduleNext(), the run timer
\* calls executeScheduledRun(), which suspends in queueAllEnabledCounties()
TimerFire(c) ==
    /\ IsFreeSlot(c)
    /\ \E t \in timers :
        /\ t.fire <= now
        /\ IF t.cb = "scheduleNext"
           THEN scheduleNext_begin(c, "retry", timers \ {t})
           ELSE /\ Len(jobs) + Cardinality(Counties) <= MaxJobs
                /\ timers' = timers \ {t}
                /\ calls' = [calls EXCEPT ![c] = [IdleCall EXCEPT !.pc = "counties", !.kind = "run"]]
                /\ UNCHANGED <<timeoutId, isScheduled, lastScheduledTime, lastResult>>
    /\ UNCHANGED <<now, calcVars, tableVars, apiVars, driverVars, queueVars>>

\* variant: scheduleNext() is called at the end of the try block, not in finally
RunCounties_noFinally(c) ==
    /\ calls[c].pc = "counties"
    /\ \E dbOk \in DbOutcomes :
        /\ Fault(dbOk)
        /\ IF dbOk /\ Len(getEnabledCounties) > 0
           THEN /\ calls' = [calls EXCEPT ![c].pc = "inserting", ![c].todo = getEnabledCounties]
                /\ UNCHANGED <<timeoutId, isScheduled, lastScheduledTime, timers, lastResult>>
           ELSE IF dbOk THEN executeScheduledRun_finally(c, <<>>)
           ELSE /\ calls' = [calls EXCEPT ![c] = IdleCall]
                /\ UNCHANGED <<timeoutId, isScheduled, lastScheduledTime, timers, lastResult>>
    /\ UNCHANGED <<now, calcVars, tableVars, requests, driverVars, queueVars>>

\* queueAllEnabledCounties() resumes from `await getEnabledCounties()`; when the
\* read fails or no county is enabled, executeScheduledRun reaches its finally
\* block and calls scheduleNext()
RunCounties(c) ==
    /\ calls[c].pc = "counties"
    /\ \E dbOk \in DbOutcomes :
        /\ Fault(dbOk)
        /\ IF dbOk /\ Len(getEnabledCounties) > 0
           THEN /\ calls' = [calls EXCEPT ![c].pc = "inserting", ![c].todo = getEnabledCounties]
                /\ UNCHANGED <<timeoutId, isScheduled, lastScheduledTime, timers, lastResult>>
           ELSE executeScheduledRun_finally(c, <<>>)
    /\ UNCHANGED <<now, calcVars, tableVars, requests, driverVars, queueVars>>

\* the loop body of queueAllEnabledCounties after one insert has settled:
\* jobIds.push(...) on success, console.error on failure
queueAllEnabledCounties_push(jobIds, countyCode, dbOk) ==
    IF dbOk THEN Append(jobIds, countyCode) ELSE jobIds

\* variant without the try/catch around the insert: the first failure leaves
\* the loop
RunInsert_abortOnError(c) ==
    /\ calls[c].pc = "inserting"
    /\ \E dbOk \in DbOutcomes :
        /\ Fault(dbOk)
        /\ jobs' = IF dbOk THEN Append(jobs, PendingJob(Head(calls[c].todo))) ELSE jobs
        /\ LET jobIds == queueAllEnabledCounties_push(calls[c].queued, Head(calls[c].todo), dbOk)
           IN IF dbOk /\ Len(calls[c].todo) > 1
              THEN /\ calls' = [calls EXCEPT ![c].todo = Tail(@), ![c].queued = jobIds]
                   /\ UNCHANGED <<timeoutId, isScheduled, lastScheduledTime, timers, lastResult>>
              ELSE executeScheduledRun_finally(c, jobIds)
    /\ UNCHANGED <<now, calcVars, email_settings, counties, requests, driverVars, queueVars>>

\* one `await createScrapingJob(county.code)` of the loop completes or fails;
\* after the last county executeScheduledRun calls scheduleNext()
RunInsert(c) ==
    /\ calls[c].pc = "inserting"
    /\ \E dbOk \in DbOutcomes :
        /\ Fault(dbOk)
        /\ jobs' = IF dbOk THEN Append(jobs, PendingJob(Head(calls[c].todo))) ELSE jobs
        /\ LET jobIds == queueAllEnabledCounties_push(calls[c].queued, Head(calls[c].todo), dbOk)
           IN IF Len(calls[c].todo) > 1
              THEN /\ calls' = [calls EXCEPT ![c].todo = Tail(@), ![c].queued = jobIds]
                   /\ UNCHANGED <<timeoutId, isScheduled, lastScheduledTime, timers, lastResult>>
              ELSE executeScheduledRun_finally(c, jobIds)
    /\ UNCHANGED <<now, calcVars, email_settings, counties, requests, driverVars, queueVars>>

\* request bodies of PUT /email-settings
SaveBodies ==
    {[emails |-> "a@b.c", frequency |-> "weekly", weeklyDay |-> "monday", monthlyDay |-> 1],
     [emails |-> "a@b.c", frequency |-> "daily", weeklyDay |-> "monday", monthlyDay |-> 1],
     [emails |-> "  ", frequency |-> "weekly", weeklyDay |-> "monday", monthlyDay |-> 1],
     [emails |-> "", frequency |-> "weekly", weeklyDay |-> "monday", monthlyDay |-> 1]}

SettingsRow(body, lastJobRun) ==
    [emails |-> body.emails, frequency |-> body.frequency, weeklyDay |-> body.weeklyDay,
     monthlyDay |-> body.monthlyDay, lastJobRun |-> lastJobRun]

\* rows the email_settings table may hold when the server starts
StoredRows ==
    {SettingsRow([emails |-> "a@b.c", frequency |-> "weekly", weeklyDay |-> "monday", monthlyDay |-> 1], NoTime),
     SettingsRow([emails |-> "a@b.c", frequency |-> "monthly", weeklyDay |-> "monday", monthlyDay |-> 31], NoTime)}

\* PUT /email-settings: validation, then updateEmailSettings() suspends at its
\* own `await getEmailSettings()`
PutBegin(c) ==
    /\ IsFreeSlot(c)
    /\ requests < MaxRequests
    /\ requests' = requests + 1
    /\ \E body \in SaveBodies :
        IF body.emails = "" \/ body.frequency = ""
        THEN /\ lastResult' = [kind |-> "put", outcome |-> "rejected", http |-> 400]
             /\ UNCHANGED calls
        ELSE /\ calls' = [calls EXCEPT ![c] = [IdleCall EXCEPT !.pc = "put_read", !.kind = "put", !.body = body]]
             /\ UNCHANGED lastResult
    /\ UNCHANGED <<now, calcVars, tableVars, timeoutId, isScheduled, lastScheduledTime, timers, faults,
                   driverVars, queueVars>>

\* updateEmailSettings() has read the stored last_job_run and issues the DELETE
PutRead(c) ==
    /\ calls[c].pc = "put_read"
    /\ calls' = [calls EXCEPT ![c].pc = "put_delete", ![c].existing = getEmailSettings,
                              ![c].lastJobRun = getEmailSettings.lastJobRun]
    /\ UNCHANGED <<now, calcVars, tableVars, timeoutId, isScheduled, lastScheduledTime, timers, lastResult,
                   apiVars, driverVars, queueVars>>

\* the DELETE ran: on success the callback issues the INSERT, on failure the
\* promise rejects and the route answers 500
PutDelete(c) ==
    /\ calls[c].pc = "put_delete"
    /\ \E dbOk \in DbOutcomes :
        /\ Fault(dbOk)
        /\ IF dbOk
           THEN /\ email_settings' = <<>>
                /\ calls' = [calls EXCEPT ![c].pc = "put_insert"]
                /\ UNCHANGED lastResult
           ELSE /\ calls' = [calls EXCEPT ![c] = IdleCall]
                /\ lastResult' = [kind |-> "put", outcome |-> "failed", http |-> 500]
                /\ UNCHANGED email_settings
    /\ UNCHANGED <<now, calcVars, counties, jobs, timeoutId, isScheduled, lastScheduledTime, timers, requests,
                   driverVars, queueVars>>

\* the INSERT ran: on success the route goes on to `await autoScheduler.reschedule()`
PutInsert(c) ==
    /\ calls[c].pc = "put_insert"
    /\ \E dbOk \in DbOutcomes :
        /\ Fault(dbOk)
        /\ IF dbOk
           THEN /\ email_settings' = Append(email_settings, SettingsRow(calls[c].body, calls[c].lastJobRun))
                /\ scheduleNext_begin(c, "put", timers)
           ELSE /\ calls' = [calls EXCEPT ![c] = IdleCall]
                /\ lastResult' = [kind |-> "put", outcome |-> "failed", http |-> 500]
                /\ UNCHANGED <<email_settings, timeoutId, isScheduled, lastScheduledTime, timers>>
    /\ UNCHANGED <<now, calcVars, counties, jobs, requests, driverVars, queueVars>>

\* updateLastJobRun(now): UPDATE email_settings SET last_job_run = ? on the
\* latest row; no row is touched when the table is empty
updateLastJobRun ==
    /\ getEmailSettings.lastJobRun # now
    /\ email_settings' =
          IF Len(email_settings) = 0 THEN email_settings
          ELSE [email_settings EXCEPT ![Len(email_settings)].lastJobRun = now]
    /\ UNCHANGED <<now, calcVars, counties, jobs, schedVars, apiVars, driverVars, queueVars>>

\* PUT /api/counties/:countyId/status with a boolean `enabled` in its body
updateCountyStatus(k, enabled) ==
    /\ requests < MaxRequests
    /\ requests' = requests + 1
    /\ counties' = [counties EXCEPT ![k] = enabled]
    /\ UNCHANGED <<now, calcVars, email_settings, jobs, schedVars, faults, driverVars, queueVars>>

\* Monday 2024-09-30 03:00, one hour before the weekly (monday) and the
\* monthly (31, clamped to the 30th) fire time
StartInstant == DaysFromCivil(2024, 9, 30) * MinutesPerDay + 3 * 60

HorizonEnd == StartInstant + HorizonMinutes

\* time passes until the earliest pending timer is due; database calls take
\* far less than a minute, so no call is suspended across such a wait
Tick ==
    /\ AllIdle
    /\ timers # {}
    /\ LET due == CHOOSE t \in timers : \A u \in timers : t.fire <= u.fire IN
        /\ due.fire > now
        /\ due.fire <= HorizonEnd
        /\ now' = due.fire
    /\ UNCHANGED <<calcVars, tableVars, schedVars, apiVars, driverVars, queueVars>>

----------------------------------------------------------------------------
(* Scrape endpoints and the worker slot: routes/scraping.js, and the same
   handlers in the monolithic server.js *)

NoProcess == 0
NoJob == 0

\* child.exitCode while the process runs, and after it was ended by a signal
NullCode == 0 - 1

\* child.exitCode after a failed spawn: the negated errno (ENOENT)
SpawnErrno == 0 - 2

CountyCodes == Counties \cup {"99"}

IdleReq == [pc |-> "idle", op |-> Null, county |-> Null, job |-> NoJob]

ReqSlots == 1 .. MaxReqs
IsFreeReq(r) == reqs[r].pc = "idle" /\ \A q \in ReqSlots : q < r => reqs[q].pc # "idle"

\* a request is accepted only while the table has room for the rows of all
\* requests already on their way to an insert
RoomForJob ==
    Len(jobs) + Cardinality({r \in ReqSlots : reqs[r].pc \in {"county", "insert"}}) < MaxQueueJobs

\* an insert is issued only while the table has room for it and for the rows
\* of the inserts already issued
RoomForInsert ==
    Len(jobs) + Cardinality({r \in ReqSlots : reqs[r].pc = "insert"}) < MaxQueueJobs

\* createScrapingJob: database/jobs.js inserts 'pending', server.js 'running'
createScrapingJob(countyId) ==
    [PendingJob(countyId) EXCEPT !.status = IF build = "monolith" THEN "running" ELSE "pending"]

\* getNextPendingJob() has not been called yet
NotCalled == 0 - 1

\* SELECT * FROM scraping_jobs WHERE status = 'pending' ORDER BY started_at ASC
\* LIMIT 1: the ids of the rows the query may return, NoJob for no row.  SQL
\* leaves the order of rows with equal started_at open, so every pending row
\* with the least started_at is a possible result.
getNextPendingJob(rows) ==
    LET pending == {j \in DOMAIN rows : rows[j].status = "pending"}
    IN  IF pending = {} THEN {NoJob}
        ELSE {j \in pending : \A k \in pending : rows[j].started_at <= rows[k].started_at}

\* a call of getNextPendingJob() resolves
NextPendingJob ==
    /\ nextPending = NotCalled
    /\ nextPending' \in getNextPendingJob(jobs)
    /\ UNCHANGED <<now, calcVars, tableVars, schedVars, apiVars, driverVars,
                   build, currentScrapingProcess, currentScrapingJob, procs, reqs, reply>>

\* UPDATE scraping_jobs SET <the keys of updates> WHERE id = jobId
updateScrapingJob(rows, jobId, updates) ==
    IF jobId \in 1 .. Len(rows)
    THEN [rows EXCEPT ![jobId] =
              [f \in DOMAIN rows[jobId] |->
                  IF f \in DOMAIN updates THEN updates[f] ELSE rows[jobId][f]]]
    ELSE rows

\* currentScrapingProcess && currentScrapingProcess.exitCode === null
SlotBusy ==
    /\ currentScrapingProcess # NoProcess
    /\ procs[currentScrapingProcess].exitCode = NullCode

Reply(op, http) == [op |-> op, http |-> http]

\* child process returned by spawn() for job row jobId
Child(jobId, handlers) ==
    [job |-> jobId, handlers |-> handlers, alive |-> TRUE, exitCode |-> NullCode, killed |-> FALSE]

\* `Process exited with code ${code}`
ExitMessage(code) ==
    IF code = NullCode THEN "Process exited with code null" ELSE "Process exited with code 1"

\* currentScrapingProcess.kill('SIGTERM') when the handle is set and not yet
\* killed; the signal is delivered, and killed set, only while the child runs
kill(ps) ==
    IF /\ currentScrapingProcess # NoProcess
       /\ ~ps[currentScrapingProcess].killed
       /\ ps[currentScrapingProcess].alive
    THEN [ps EXCEPT ![currentScrapingProcess].killed = TRUE]
    ELSE ps

\* POST /counties/:countyCode/scrape suspends at `await getCountyByCode()`
ScrapeBegin(r, k) ==
    /\ IsFreeReq(r)
    /\ RoomForJob
    /\ reqs' = [reqs EXCEPT ![r] = [IdleReq EXCEPT !.pc = "county", !.op = "scrape", !.county = k]]
    /\ UNCHANGED <<now, calcVars, tableVars, schedVars, apiVars, driverVars,
                   build, nextPending, currentScrapingProcess, currentScrapingJob, procs, reply>>

\* POST /jobs/:jobId/retry: the job row is read (rows are never deleted and
\* their county never changes), then the handler suspends at
\* `await getCountyByCode()`
RetryBegin(r, j) ==
    /\ IsFreeReq(r)
    /\ IF j \in 1 .. Len(jobs)
       THEN /\ reqs' = [reqs EXCEPT ![r] = [IdleReq EXCEPT !.pc = "county", !.op = "retry",
                                                          !.county = jobs[j].county_id, !.job = j]]
            /\ UNCHANGED reply
       ELSE /\ reply' = Reply("retry", 404)
            /\ UNCHANGED reqs
    /\ UNCHANGED <<now, calcVars, tableVars, schedVars, apiVars, driverVars,
                   build, nextPending, currentScrapingProcess, currentScrapingJob, procs>>

\* POST /start-scraping with county_id "01" in its body: checks
\* currentScrapingJob, then suspends at `await createScrapingJob()`
LegacyBegin(r) ==
    /\ IsFreeReq(r)
    /\ RoomForJob
    /\ IF currentScrapingJob # NoJob
       THEN /\ reply' = Reply("legacy", 400)
            /\ UNCHANGED reqs
       ELSE /\ reqs' = [reqs EXCEPT ![r] = [IdleReq EXCEPT !.pc = "insert", !.op = "legacy", !.county = "01"]]
            /\ UNCHANGED reply
    /\ UNCHANGED <<now, calcVars, tableVars, schedVars, apiVars, driverVars,
                   build, nextPending, currentScrapingProcess, currentScrapingJob, procs>>

\* the county read of a scrape or retry request returned: county checks, the
\* slot check, and the job insert is issued
CountyRead(r) ==
    /\ reqs[r].pc = "county"
    /\ IF reqs[r].county \notin DOMAIN counties
       THEN /\ reply' = Reply(reqs[r].op, IF reqs[r].op = "scrape" THEN 404 ELSE 400)
            /\ reqs' = [reqs EXCEPT ![r] = IdleReq]
       ELSE IF ~counties[reqs[r].county] \/ SlotBusy
       THEN /\ reply' = Reply(reqs[r].op, 400)
            /\ reqs' = [reqs EXCEPT ![r] = IdleReq]
       ELSE /\ RoomForInsert
            /\ reqs' = [reqs EXCEPT ![r].pc = "insert"]
            /\ UNCHANGED reply
    /\ UNCHANGED <<now, calcVars, tableVars, schedVars, apiVars, driverVars,
                   build, nextPending, currentScrapingProcess, currentScrapingJob, procs>>

\* what can happen to the insert and the spawn that follows it; only the
\* scrape endpoint listens for the child's 'error' event
InsertOutcomes(op) ==
    IF faults < MaxFaults
    THEN {"ok", "db"} \cup (IF op = "scrape" THEN {"spawn"} ELSE {})
    ELSE {"ok"}

Handlers(op) == CASE op = "scrape" -> "full" [] op = "legacy" -> "exit" [] OTHER -> "none"

\* `await createScrapingJob()` returned: the globals are assigned, the worker
\* is spawned and the request is answered.  A failed spawn emits 'error' on
\* the next tick: the listener marks the row failed and clears the globals.
InsertDone(r) ==
    /\ reqs[r].pc = "insert"
    /\ \E outcome \in InsertOutcomes(reqs[r].op) :
        LET jobId == Len(jobs) + 1
            row == createScrapingJob(reqs[r].county)
        IN  /\ faults' = IF outcome = "ok" THEN faults ELSE faults + 1
            /\ CASE outcome = "db" ->
                      /\ reply' = Reply(reqs[r].op, 500)
                      /\ UNCHANGED <<jobs, currentScrapingProcess, currentScrapingJob, procs>>
                 [] outcome = "ok" ->
                      /\ jobs' = Append(jobs, row)
                      /\ procs' = Append(procs, Child(jobId, Handlers(reqs[r].op)))
                      /\ currentScrapingJob' = jobId
                      /\ currentScrapingProcess' = Len(procs) + 1
                      /\ reply' = Reply(reqs[r].op, 200)
                 [] outcome = "spawn" ->
                      /\ jobs' = Append(jobs, [row EXCEPT !.status = "failed", !.completed_at = now,
                                                          !.error_message = "spawn python3 ENOENT"])
                      /\ procs' = Append(procs, [Child(jobId, "full") EXCEPT !.alive = FALSE,
                                                                            !.exitCode = SpawnErrno])
                      /\ currentScrapingJob' = NoJob
                      /\ currentScrapingProcess' = NoProcess
                      /\ reply' = Reply(reqs[r].op, 200)
    /\ reqs' = [reqs EXCEPT ![r] = IdleReq]
    /\ UNCHANGED <<now, calcVars, email_settings, counties, schedVars, requests, driverVars, build, nextPending>>

\* variant without the check of currentScrapingJob
StopBegin_noCheck(r) ==
    /\ IsFreeReq(r)
    /\ reqs' = [reqs EXCEPT ![r] = [IdleReq EXCEPT !.pc = "update", !.op = "stop",
                                                   !.job = currentScrapingJob]]
    /\ UNCHANGED <<now, calcVars, tableVars, schedVars, apiVars, driverVars,
                   build, nextPending, currentScrapingProcess, currentScrapingJob, procs, reply>>

\* POST /stop-scraping: checks currentScrapingJob, then suspends at
\* `await updateScrapingJob()`
StopBegin(r) ==
    /\ IsFreeReq(r)
    /\ IF currentScrapingJob = NoJob
       THEN /\ reply' = Reply("stop", 400)
            /\ UNCHANGED reqs
       ELSE /\ reqs' = [reqs EXCEPT ![r] = [IdleReq EXCEPT !.pc = "update", !.op = "stop",
                                                          !.job = currentScrapingJob]]
            /\ UNCHANGED reply
    /\ UNCHANGED <<now, calcVars, tableVars, schedVars, apiVars, driverVars,
                   build, nextPending, currentScrapingProcess, currentScrapingJob, procs>>

\* POST /jobs/:jobId/stop suspends at `await updateScrapingJob()`
StopJobBegin(r, j) ==
    /\ IsFreeReq(r)
    /\ j \in 1 .. Len(jobs)
    /\ reqs' = [reqs EXCEPT ![r] = [IdleReq EXCEPT !.pc = "update", !.op = "stop_job", !.job = j]]
    /\ UNCHANGED <<now, calcVars, tableVars, schedVars, apiVars, driverVars,
                   build, nextPending, currentScrapingProcess, currentScrapingJob, procs, reply>>

\* the update of a stop request returned: the row is 'stopped'; the current
\* worker is killed and the globals are cleared (by /jobs/:jobId/stop only
\* when the job is the current one)
StopDone(r) ==
    /\ reqs[r].pc = "update"
    /\ \E dbOk \in DbOutcomes :
        /\ Fault(dbOk)
        /\ IF ~dbOk
           THEN /\ reply' = Reply(reqs[r].op, 500)
                /\ UNCHANGED <<jobs, currentScrapingProcess, currentScrapingJob, procs>>
           ELSE /\ jobs' = updateScrapingJob(jobs, reqs[r].job,
                                             [status |-> "stopped", completed_at |-> now])
                /\ reply' = Reply(reqs[r].op, 200)
                /\ IF reqs[r].op = "stop" \/ currentScrapingJob = reqs[r].job
                   THEN /\ procs' = kill(procs)
                        /\ currentScrapingProcess' = NoProcess
                        /\ currentScrapingJob' = NoJob
                   ELSE UNCHANGED <<currentScrapingProcess, currentScrapingJob, procs>>
    /\ reqs' = [reqs EXCEPT ![r] = IdleReq]
    /\ UNCHANGED <<now, calcVars, email_settings, counties, schedVars, requests, driverVars, build, nextPending>>

\* exit codes a running worker can end with; code null after a signal
ExitCodes(p) == {0, 1} \cup (IF procs[p].killed THEN {NullCode} ELSE {})

\* the worker ends and its 'exit' listener, if it has one, runs
WorkerExit(p) ==
    /\ p \in 1 .. Len(procs)
    /\ procs[p].alive
    /\ \E code \in ExitCodes(p) :
        /\ procs' = [procs EXCEPT ![p].alive = FALSE, ![p].exitCode = code]
        /\ IF procs[p].handlers = "full"
           THEN jobs' = updateScrapingJob(jobs, procs[p].job,
                            [status |-> IF code = 0 THEN "completed" ELSE "failed",
                             completed_at |-> now,
                             error_message |-> IF code = 0 THEN Null ELSE ExitMessage(code)])
           ELSE UNCHANGED jobs
    /\ IF procs[p].handlers \in {"full", "exit"}
       THEN /\ currentScrapingProcess' = NoProcess
            /\ currentScrapingJob' = NoJob
       ELSE UNCHANGED <<currentScrapingProcess, currentScrapingJob>>
    /\ UNCHANGED <<now, calcVars, email_settings, counties, schedVars, apiVars, driverVars,
                   build, nextPending, reqs, reply>>

----------------------------------------------------------------------------
(* Specifications *)

vars == <<now, calcIn, calcOut, email_settings, counties, jobs,
          timeoutId, isScheduled, lastScheduledTime, timers, calls, lastResult,
          requests, faults, rearms,
          build, nextPending, currentScrapingProcess, currentScrapingJob, procs, reqs, reply>>

NoResult == [kind |-> Null, outcome |-> Null, http |-> 0]

TablesInit ==
    /\ email_settings = <<>>
    /\ counties = [k \in Counties |-> TRUE]
    /\ jobs = <<>>

\* state of the AutoScheduler singleton after its constructor
SchedulerInit ==
    /\ timeoutId = NoTimer
    /\ isScheduled = FALSE
    /\ lastScheduledTime = NoTime
    /\ timers = {}
    /\ calls = [c \in Slots |-> IdleCall]
    /\ lastResult = NoResult
    /\ requests = 0
    /\ faults = 0

\* module state of the scrape endpoints when the server starts
QueueInit ==
    /\ currentScrapingProcess = NoProcess
    /\ currentScrapingJob = NoJob
    /\ procs = <<>>
    /\ reqs = [r \in ReqSlots |-> IdleReq]
    /\ reply = Reply(Null, 0)
    /\ nextPending = NotCalled

CalcIdle == calcIn = Config("weekly", "monday", 1) /\ calcOut = NoCalc

DriverIdle == rearms = <<>>

QueueIdle == build = "routes" /\ QueueInit

(* the calculator applied to every instant and config of its input sets *)
CalcSpecInit == CalcInit /\ TablesInit /\ SchedulerInit /\ DriverIdle /\ QueueIdle

CalcNext == Calculate

SpecCalc == CalcSpecInit /\ [][CalcNext]_vars

(* the AutoScheduler with settings saves, county updates, timers and the clock *)
SchedInit ==
    /\ now = StartInstant
    /\ CalcIdle
    /\ email_settings \in {<<>>} \cup {<<r>> : r \in StoredRows}
    /\ counties = [k \in Counties |-> TRUE]
    /\ jobs = <<>>
    /\ SchedulerInit
    /\ DriverIdle
    /\ QueueIdle

SchedNext ==
    \/ Start
    \/ \E c \in Slots : ScheduleNextResume(c)
    \/ \E c \in Slots : TimerFire(c)
    \/ \E c \in Slots : RunCounties(c)
    \/ \E c \in Slots : RunInsert(c)
    \/ \E c \in Slots : PutBegin(c)
    \/ \E c \in Slots : PutRead(c)
    \/ \E c \in Slots : PutDelete(c)
    \/ \E c \in Slots : PutInsert(c)
    \/ \E k \in Counties, enabled \in BOOLEAN : updateCountyStatus(k, enabled)
    \/ Tick

SpecSched == SchedInit /\ [][SchedNext]_vars

\* the scheduler with a single API request: one PUT /email-settings or one
\* county status update
PutOnce(c) == requests = 0 /\ PutBegin(c)

CountyOnce(k, enabled) == requests = 0 /\ updateCountyStatus(k, enabled)

SaveNext ==
    \/ Start
    \/ \E c \in Slots : ScheduleNextResume(c)
    \/ \E c \in Slots : TimerFire(c)
    \/ \E c \in Slots : RunCounties(c)
    \/ \E c \in Slots : RunInsert(c)
    \/ \E c \in Slots : PutOnce(c)
    \/ \E c \in Slots : PutRead(c)
    \/ \E c \in Slots : PutDelete(c)
    \/ \E c \in Slots : PutInsert(c)
    \/ \E k \in Counties, enabled \in BOOLEAN : CountyOnce(k, enabled)
    \/ Tick

SpecSave == SchedInit /\ [][SaveNext]_vars

\* the settings store: saves, their reschedule, start() and updateLastJobRun,
\* from a table that holds a config with recipients
StoreInit == SchedInit /\ email_settings # <<>>

StoreNext ==
    \/ Start
    \/ \E c \in Slots : ScheduleNextResume(c)
    \/ \E c \in Slots : PutBegin(c)
    \/ \E c \in Slots : PutRead(c)
    \/ \E c \in Slots : PutDelete(c)
    \/ \E c \in Slots : PutInsert(c)
    \/ updateLastJobRun

SpecStore == StoreInit /\ [][StoreNext]_vars

\* instants and stored rows from which single calls of scheduleNext() are tried
RearmInstants ==
    {d * MinutesPerDay + m :
        d \in DaysFromCivil(2024, 9, 28) .. DaysFromCivil(2024, 10, 2),
        m \in {3 * 60, 4 * 60, 10 * 60}}

RearmRows ==
    {SettingsRow([emails |-> e, frequency |-> cfg.frequency, weeklyDay |-> cfg.weeklyDay,
                  monthlyDay |-> cfg.monthlyDay], NoTime) :
        e \in {"a@b.c", "  "},
        cfg \in {Config("weekly", "monday", 1), Config("weekly", "funday", 1),
                 Config("monthly", "monday", 1), Config("monthly", "monday", 31),
                 Config("daily", "monday", 1)}}

(* the AutoScheduler left to its timers: every stored config, every choice of
   enabled counties, failing database calls, and no API request *)
RunInit ==
    /\ now = StartInstant
    /\ CalcIdle
    /\ email_settings \in {<<>>} \cup {<<r>> : r \in RearmRows}
    /\ counties \in [Counties -> BOOLEAN]
    /\ jobs = <<>>
    /\ SchedulerInit
    /\ DriverIdle
    /\ QueueIdle

RunNext ==
    \/ Start
    \/ \E c \in Slots : ScheduleNextResume(c)
    \/ \E c \in Slots : TimerFire(c)
    \/ \E c \in Slots : RunCounties(c)
    \/ \E c \in Slots : RunInsert(c)
    \/ Tick

SpecRun == RunInit /\ [][RunNext]_vars

\* the event loop runs every continuation whose database callback is due
RunFairness ==
    /\ \A c \in Slots : WF_vars(ScheduleNextResume(c))
    /\ \A c \in Slots : WF_vars(RunCounties(c))
    /\ \A c \in Slots : WF_vars(RunInsert(c))

FairSpecRun == SpecRun /\ RunFairness

(* scheduleNext() called twice in succession on an idle scheduler, for every
   stored config and a sample of instants, with no other activity *)
RearmInit ==
    /\ now \in RearmInstants
    /\ CalcIdle
    /\ email_settings \in {<<>>} \cup {<<r>> : r \in RearmRows}
    /\ counties = [k \in Counties |-> TRUE]
    /\ jobs = <<>>
    /\ SchedulerInit
    /\ DriverIdle
    /\ QueueIdle

\* the driver calls scheduleNext() once the previous call has completed
RearmCall ==
    /\ Len(rearms) < 2
    /\ AllIdle
    /\ scheduleNext_begin(1, "direct", timers)
    /\ UNCHANGED <<now, calcVars, tableVars, apiVars, driverVars, queueVars>>

\* the call completes; the driver notes the timers it left pending
RearmDone ==
    /\ scheduleNext_resume(1)
    /\ rearms' = Append(rearms, [left |-> {[fire |-> t.fire, cb |-> t.cb] : t \in timers'},
                                  dbOk |-> faults' = faults])

RearmNext == RearmCall \/ RearmDone

SpecRearm == RearmInit /\ [][RearmNext]_vars

(* the scrape endpoints of either server, with county 01 enabled and county 02
   disabled, and workers that end on their own or after a kill *)
QueueSpecInit ==
    /\ now = StartInstant
    /\ CalcIdle
    /\ email_settings = <<>>
    /\ counties = [k \in Counties |-> k = "01"]
    /\ jobs = <<>>
    /\ SchedulerInit
    /\ DriverIdle
    /\ build \in {"monolith", "routes"}
    /\ QueueInit

QueueNext ==
    \/ \E r \in ReqSlots, k \in CountyCodes : ScrapeBegin(r, k)
    \/ \E r \in ReqSlots, j \in 1 .. MaxQueueJobs : RetryBegin(r, j)
    \/ \E r \in ReqSlots : LegacyBegin(r)
    \/ \E r \in ReqSlots : CountyRead(r)
    \/ \E r \in ReqSlots : InsertDone(r)
    \/ \E r \in ReqSlots : StopBegin(r)
    \/ \E r \in ReqSlots, j \in 1 .. MaxQueueJobs : StopJobBegin(r, j)
    \/ \E r \in ReqSlots : StopDone(r)
    \/ \E p \in 1 .. MaxQueueJobs : WorkerExit(p)

SpecQueue == QueueSpecInit /\ [][QueueNext]_vars

\* every awaited database operation settles and its continuation runs; every
\* worker process ends
QueueFairness ==
    /\ \A r \in ReqSlots : WF_vars(CountyRead(r))
    /\ \A r \in ReqSlots : WF_vars(InsertDone(r))
    /\ \A r \in ReqSlots : WF_vars(StopDone(r))
    /\ \A p \in 1 .. MaxQueueJobs : WF_vars(WorkerExit(p))

FairSpecQueue == SpecQueue /\ QueueFairness

\* getNextPendingJob applied to job tables of up to MaxJobs rows: started_at,
\* taken by createScrapingJob before the insert, does not decrease with the id
JobStatuses == {"pending", "running", "completed"}

JobTables ==
    UNION {[1 .. n -> [county_id : {"01"}, status : JobStatuses,
                        started_at : {StartInstant, StartInstant + 1},
                        completed_at : {NoTime}, error_message : {Null}]] : n \in 0 .. MaxJobs}

PendingInit ==
    /\ now = StartInstant + 1
    /\ CalcIdle
    /\ email_settings = <<>>
    /\ counties = [k \in Counties |-> TRUE]
    /\ jobs \in {t \in JobTables :
                    \A i, j \in DOMAIN t : i < j => t[i].started_at <= t[j].started_at}
    /\ SchedulerInit
    /\ DriverIdle
    /\ QueueIdle

PendingNext == NextPendingJob

SpecPending == PendingInit /\ [][PendingNext]_vars

\* the modular build with the scrape-now and stop-current endpoints only
StopInit == QueueSpecInit /\ build = "routes"

StopNext ==
    \/ \E r \in ReqSlots, k \in CountyCodes : ScrapeBegin(r, k)
    \/ \E r \in ReqSlots : CountyRead(r)
    \/ \E r \in ReqSlots : InsertDone(r)
    \/ \E r \in ReqSlots : StopBegin(r)
    \/ \E r \in ReqSlots : StopDone(r)
    \/ \E p \in 1 .. MaxQueueJobs : WorkerExit(p)

SpecStop == StopInit /\ [][StopNext]_vars

----------------------------------------------------------------------------
(* Properties of the schedule calculator, checked under SpecCalc *)

CalcDone == calcOut.state = "done"

ValidWeekly  == calcIn.frequency = "weekly" /\ toLowerCase(calcIn.weeklyDay) \in WeekDays
ValidMonthly == calcIn.frequency = "monthly" /\ calcIn.monthlyDay \in 1 .. 31

\* today's 04:00, by plain arithmetic on the instant
TodayAtFour == (now \div MinutesPerDay) * MinutesPerDay + ScheduleHour * 60

\* C6 (as claimed): for every now and every valid weekly or monthly config the
\* fire time is not earlier than now and the delay handed to the timer is >= 0.
C6_DelayNonNegative ==
    (CalcDone /\ (ValidWeekly \/ ValidMonthly)) =>
        /\ calcOut.next.ok /\ calcOut.delay.ok
        /\ calcOut.next.time >= now
        /\ calcOut.delay.ms >= 0

\* C7: the weekly fire time falls on the requested weekday at 04:00, strictly
\* after now and at most 7 days + 24 h later; on the target weekday it is
\* today's 04:00 before 04:00 and exactly 7 days after today's 04:00 from 04:00 on.
C7_WeeklyFireTime ==
    (CalcDone /\ ValidWeekly) =>
        LET r == calcOut.next.time
            target == dayMap[toLowerCase(calcIn.weeklyDay)]
        IN  /\ calcOut.next.ok
            /\ ((r \div MinutesPerDay) + 4) % 7 = target
            /\ r % MinutesPerDay = ScheduleHour * 60
            /\ r > now
            /\ r - now <= 8 * MinutesPerDay
            /\ (getDay(now) = target /\ now >= TodayAtFour) => r = TodayAtFour + 7 * MinutesPerDay
            /\ (getDay(now) = target /\ now < TodayAtFour) => r = TodayAtFour

\* Monday 2024-01-15 10:00 with weeklyDay = monday gives Monday 2024-01-22 04:00
C7_Witness ==
    /\ CalcDone /\ calcIn.frequency = "weekly" /\ calcIn.weeklyDay = "monday"
    /\ now = DaysFromCivil(2024, 1, 15) * MinutesPerDay + 10 * 60
    /\ calcOut.next.time = DaysFromCivil(2024, 1, 22) * MinutesPerDay + 4 * 60

\* first instant of the month that is k months after the month of instant t
MonthStart(t, k) ==
    LET c == CivilFromDays(t \div MinutesPerDay)
        m == c.month + k
    IN  DaysFromCivil(IF m > 11 THEN c.year + 1 ELSE c.year, (IF m > 11 THEN m - 12 ELSE m) + 1, 1) * MinutesPerDay

\* C8: the monthly fire time lies in the current month unless day monthlyDay of
\* the current month at 04:00 is not after now, then in the next month
\* (December rolls to January); it is monthlyDay of that month at 04:00, or
\* the month's last day at 04:00 when the month has no such day.
C8_MonthlyFireTime ==
    (CalcDone /\ ValidMonthly) =>
        LET d == calcIn.monthlyDay
            passed == MonthStart(now, 0) + (d - 1) * MinutesPerDay + ScheduleHour * 60 <= now
            k == IF passed THEN 1 ELSE 0
            first == MonthStart(now, k)
            len == (MonthStart(now, k + 1) - first) \div MinutesPerDay
            day == IF d > len THEN len ELSE d
        IN  /\ calcOut.next.ok
            /\ calcOut.next.time = first + (day - 1) * MinutesPerDay + ScheduleHour * 60

\* now = 2024-01-31 10:00 with monthlyDay = 31 gives 2024-02-29 04:00
C8_Witness ==
    /\ CalcDone /\ calcIn.frequency = "monthly" /\ calcIn.monthlyDay = 31
    /\ now = DaysFromCivil(2024, 1, 31) * MinutesPerDay + 10 * 60
    /\ calcOut.next.time = DaysFromCivil(2024, 2, 29) * MinutesPerDay + 4 * 60

\* C9 (as claimed): daily, weekly and monthly with valid day values all yield a
\* fire time, and the unsupported-frequency error is raised exactly for a
\* frequency outside those three.
C9_RecognizedFrequencies ==
    CalcDone =>
        /\ (calcOut.next.error = "Unsupported frequency")
              <=> (calcIn.frequency \notin {"daily", "weekly", "monthly"})
        /\ (calcIn.frequency = "daily" \/ ValidWeekly \/ ValidMonthly) => calcOut.next.ok

----------------------------------------------------------------------------
(* Properties of the AutoScheduler: C3 and C10 under SpecSched, C4 under
   SpecRearm, C5 under FairSpecRun *)

\* C3 (as claimed): at most one timer is pending at any time, and a pending
\* timer is the one this.timeoutId refers to, also when scheduleNext calls overlap.
C3_SingleTimer ==
    /\ Cardinality(timers) <= 1
    /\ \A t \in timers : t.id = timeoutId

\* C4: after two successive scheduleNext() calls with the same settings, clock
\* and database outcome, exactly the timer left by the first call is pending
\* again (none when scheduling is disabled), and it is the one timeoutId names.
C4_RearmIdempotent ==
    (Len(rearms) = 2 /\ rearms[1].dbOk = rearms[2].dbOk) =>
        /\ rearms[2].left = rearms[1].left
        /\ Cardinality(timers) = Cardinality(rearms[1].left)
        /\ Cardinality(timers) <= 1
        /\ (~rearms[2].dbOk \/ ~Blank(getEmailSettings.emails)) => Cardinality(timers) = 1
        /\ \A t \in timers : t.id = timeoutId

\* two calls completed and the run timer armed by the second is the only one pending
C4_Witness ==
    /\ Len(rearms) = 2 /\ rearms[1].dbOk /\ rearms[2].dbOk
    /\ Cardinality(rearms[1].left) = 1
    /\ \E t \in timers : t.cb = "executeScheduledRun" /\ t.id = timeoutId /\ t.fire > now

RunInFlight(c) == calls[c].kind = "run" /\ calls[c].pc \in {"counties", "inserting"}

\* a timer that is pending and referenced by this.timeoutId
Armed(tid, pending) == tid # NoTimer /\ \E t \in pending : t.id = tid

\* C5: a fired run always reaches scheduleNext (whether the enqueue step
\* succeeded, was partial or threw) and that call completes; when it completes
\* a timer is armed unless the stored recipients are blank.
C5_AlwaysRearms ==
    /\ \A c \in Slots : RunInFlight(c) ~> (calls[c].kind = "run" /\ calls[c].pc = "settings")
    /\ \A c \in Slots : (calls[c].kind = "run" /\ calls[c].pc = "settings") ~> (calls[c].pc = "idle")
    /\ [][\A c \in Slots :
            (calls[c].kind = "run" /\ calls'[c].pc = "idle") =>
                /\ calls[c].pc = "settings"
                /\ Armed(timeoutId', timers') \/ Blank(getEmailSettings.emails)]_vars

\* a run whose county read failed has rearmed: its call is over and a timer is pending
C5_Witness ==
    /\ lastResult.kind = "run" /\ lastResult.outcome = "armed"
    /\ faults > 0 /\ jobs = <<>>
    /\ Armed(timeoutId, timers)

\* the settings read of call c is about to be rejected, or the calculator
\* throws on the settings it reads
ScheduleNextFails(c) ==
    /\ calls[c].pc = "settings" /\ calls'[c].pc = "idle"
    /\ \/ faults' > faults
       \/ ~Blank(getEmailSettings.emails) /\ ~calculateNextScheduledTime(now, getEmailSettings).ok

\* C10: a failure inside scheduleNext is caught: the caller continues normally
\* (a PUT still answers 200), and exactly one new timer is pending, due one hour
\* later, calling scheduleNext, and held in this.timeoutId.
C10_FallbackOnFailure ==
    [][\A c \in Slots : ScheduleNextFails(c) =>
          /\ lastResult'.outcome = "fallback"
          /\ calls[c].kind = "put" => lastResult'.http = 200
          /\ \E t \in timers' :
                /\ t \notin timers
                /\ timers' = timers \cup {t}
                /\ t.fire = now + FallbackMinutes
                /\ t.cb = "scheduleNext"
                /\ timeoutId' = t.id]_vars

\* a save with frequency "daily" has answered 200 and the retry timer is pending
C10_Witness ==
    /\ lastResult.kind = "put" /\ lastResult.outcome = "fallback" /\ lastResult.http = 200
    /\ \E t \in timers : t.cb = "scheduleNext" /\ t.id = timeoutId /\ t.fire = now + FallbackMinutes

\* C11 (as claimed): when the last scheduleNext() found blank recipients, no
\* call is in flight, no database operation has failed and the stored
\* recipients are still blank, no timer is pending and getStatus().isScheduled
\* is false, so the scheduler enqueues nothing.
C11_BlankDisarms ==
    (/\ AllIdle /\ faults = 0
     /\ lastResult.outcome = "disabled"
     /\ Blank(getEmailSettings.emails))
        => (timers = {} /\ ~isScheduled)

\* the counties that are enabled in the current state
EnabledNow == {k \in Counties : counties[k]}

\* the elements of a sequence, and whether none occurs twice
Range(q) == {q[i] : i \in DOMAIN q}
NoDuplicates(q) == \A i, j \in DOMAIN q : q[i] = q[j] => i = j

\* C12: when a fired run reads the counties table without a database error, the
\* counties it goes on to enqueue are exactly those enabled at that moment,
\* each once, whatever was enabled when the timer was armed; and every insert
\* that succeeds appends exactly one pending row, for the next of those
\* counties. A run that finds no county enabled adds no row.
C12_FreshCounties ==
    [][\A c \in Slots :
        /\ (calls[c].pc = "counties" /\ calls'[c].pc # "counties" /\ faults' = faults)
              => /\ jobs' = jobs
                 /\ IF EnabledNow = {}
                    THEN calls'[c].pc = "settings" /\ calls'[c].queued = <<>>
                    ELSE /\ calls'[c].pc = "inserting"
                         /\ Range(calls'[c].todo) = EnabledNow
                         /\ NoDuplicates(calls'[c].todo)
        /\ (calls[c].pc = "inserting" /\ calls'[c] # calls[c] /\ faults' = faults)
              => /\ jobs' = Append(jobs, PendingJob(Head(calls[c].todo)))
                 /\ IF Len(calls[c].todo) > 1
                    THEN calls'[c].pc = "inserting" /\ calls'[c].todo = Tail(calls[c].todo)
                    ELSE calls'[c].pc = "settings"]_vars

\* a run has ended without a database error after county 02 was disabled by a
\* status update: the only row is a pending one for county 01
C12_Witness ==
    /\ lastResult.kind = "run" /\ faults = 0 /\ AllIdle
    /\ counties = [k \in Counties |-> k = "01"]
    /\ Len(jobs) = 1 /\ jobs[1].county_id = "01" /\ jobs[1].status = "pending"

\* C13: in queueAllEnabledCounties every insert that settles, failed or not, is
\* followed by the attempt for the next county; a successful insert adds one
\* job row for its county and its entry to the returned list, a failed one
\* adds neither.
C13_InsertFailureIsolated ==
    [][\A c \in Slots :
        (calls[c].pc = "inserting" /\ calls'[c] # calls[c])
            => LET countyCode == Head(calls[c].todo)
                   inserted == faults' = faults
               IN /\ jobs' = IF inserted THEN Append(jobs, PendingJob(countyCode)) ELSE jobs
                  /\ calls'[c].queued = IF inserted THEN Append(calls[c].queued, countyCode)
                                        ELSE calls[c].queued
                  /\ IF Len(calls[c].todo) > 1
                     THEN /\ calls'[c].pc = "inserting"
                          /\ calls'[c].todo = Tail(calls[c].todo)
                     ELSE calls'[c].pc = "settings"]_vars

\* the insert for county 01 failed and the one for county 02 succeeded: the
\* run returns the list holding 02 alone and the only row is the one for 02
C13_Witness ==
    /\ faults = 1
    /\ \E c \in Slots : /\ calls[c].kind = "run" /\ calls[c].pc = "settings"
                        /\ calls[c].queued = <<"02">>
    /\ Len(jobs) = 1 /\ jobs[1].county_id = "02"

----------------------------------------------------------------------------
(* Properties of the scrape endpoints, checked under SpecQueue *)

Alive == {p \in DOMAIN procs : procs[p].alive}

\* C1 (as claimed): at most one scraper worker process is alive at a time,
\* under any interleaving of scrape, legacy start, retry and stop requests
\* with worker exits.
C1_SingleWorker == Cardinality(Alive) <= 1

\* C2 (as claimed): at most one row of scraping_jobs has status 'running'.
C2_SingleRunningRow ==
    Cardinality({j \in DOMAIN jobs : jobs[j].status = "running"}) <= 1

\* the statuses that end a job
Terminal == {"completed", "failed", "stopped"}

\* C14 (as claimed): a job row whose status is completed, failed or stopped
\* keeps that status in every later step: no stop request, worker exit or
\* worker error rewrites it.
C14_TerminalIsFinal ==
    [][\A j \in 1 .. Len(jobs) :
          jobs[j].status \in Terminal => jobs'[j].status = jobs[j].status]_vars

\* C15 (as claimed): once the worker launched for a job is gone, the job's row
\* eventually has a terminal status, whichever endpoint launched the worker.
C15_LaunchedJobsEnd ==
    \A p \in 1 .. MaxQueueJobs :
        (p \in DOMAIN procs /\ ~procs[p].alive)
            ~> (p \in DOMAIN procs /\ jobs[procs[p].job].status \in Terminal)

\* C16 (as claimed): a retry request is taken up only for a job whose status
\* is failed; for any other job it is rejected and nothing changes.
C16_RetryOnlyFailed ==
    [][\A r \in ReqSlots :
          (reqs[r].pc = "idle" /\ reqs'[r].op = "retry")
              => jobs[reqs'[r].job].status = "failed"]_vars

\* C17 (as claimed): a retry of a failed job of an enabled county is not
\* dropped when its county read returns: the handler goes on to create the
\* new row, also while another job occupies the slot.
C17_RetryNotDropped ==
    [][\A r \in ReqSlots :
          (/\ reqs[r].op = "retry" /\ reqs[r].pc = "county" /\ reqs'[r] # reqs[r]
           /\ jobs[reqs[r].job].status = "failed"
           /\ counties[reqs[r].county])
              => reqs'[r].pc = "insert"]_vars

\* C18: a stop-current request is answered "nothing to stop" exactly when
\* currentScrapingJob is null, and that answer changes no job row, signals no
\* process, leaves both globals as they were and suspends no handler.
C18_StopNothing ==
    [][/\ (reply' # reply /\ reply' = Reply("stop", 400))
            => /\ currentScrapingJob = NoJob
               /\ UNCHANGED <<jobs, procs, currentScrapingProcess, currentScrapingJob, reqs>>
       /\ \A r \in ReqSlots :
            (reqs[r].pc = "idle" /\ reqs'[r].op = "stop") => currentScrapingJob # NoJob]_vars

\* stop-current was answered "nothing to stop" after a job had been created
C18_Witness ==
    /\ reply = Reply("stop", 400)
    /\ currentScrapingJob = NoJob
    /\ Len(jobs) > 0

\* C19 (as claimed): when the update of a stop-current request has succeeded,
\* the job that occupied the slot is stopped with completed_at set, no worker
\* of that job is left running unsignalled, no worker of another job has been
\* signalled, and both globals are null, so the slot is free for a start
\* request.
C19_StopCurrent ==
    [][\A r \in ReqSlots :
          (reqs[r].pc = "update" /\ reqs[r].op = "stop" /\ reqs'[r].pc = "idle"
           /\ faults' = faults)
              => /\ jobs'[reqs[r].job].status = "stopped"
                 /\ jobs'[reqs[r].job].completed_at # NoTime
                 /\ \A p \in DOMAIN procs :
                       /\ (procs[p].job = reqs[r].job) => (~procs'[p].alive \/ procs'[p].killed)
                       /\ (procs'[p].killed /\ ~procs[p].killed) => procs[p].job = reqs[r].job
                 /\ currentScrapingProcess' = NoProcess
                 /\ currentScrapingJob' = NoJob]_vars

\* C20 (as claimed): when a worker exits, in the same step its job row gets
\* status completed for exit code 0 and failed with an error message for any
\* other code, completed_at is set and the slot is released, whichever
\* endpoint launched the worker.
C20_ExitRecorded ==
    [][\A p \in DOMAIN procs :
          (procs[p].alive /\ ~procs'[p].alive)
              => LET row == jobs'[procs[p].job]
                 IN /\ row.status = IF procs'[p].exitCode = 0 THEN "completed" ELSE "failed"
                    /\ procs'[p].exitCode # 0 => row.error_message \notin {Null, ""}
                    /\ row.completed_at # NoTime
                    /\ currentScrapingProcess' = NoProcess
                    /\ currentScrapingJob' = NoJob]_vars

\* C21 (as claimed): every job row created with status pending is eventually
\* given a worker process.
C21_PendingJobsRun ==
    \A j \in 1 .. MaxJobs :
        (j \in DOMAIN jobs /\ jobs[j].status = "pending")
            ~> (\E p \in DOMAIN procs : procs[p].job = j)

\* the pending row created first
OldestPending == CHOOSE j \in DOMAIN jobs :
                    /\ jobs[j].status = "pending"
                    /\ \A k \in DOMAIN jobs : jobs[k].status = "pending" => j <= k

NoSaveInFlight == \A c \in Slots : calls[c].pc \notin {"put_read", "put_delete", "put_insert"}

\* C23 (as claimed): starting from a table that holds one config, whenever no
\* save is in progress the email_settings table holds exactly one row, also
\* after saves whose DELETE and INSERT interleaved or whose INSERT failed.
C23_OneConfigRow == NoSaveInFlight => Len(email_settings) = 1

\* C24 (as claimed): the last_job_run value a save has read, and will store
\* with its INSERT, is the value stored at the moment the save deletes the
\* old row.
C24_LastJobRunKept ==
    [][\A c \in Slots :
          (calls[c].pc = "put_delete" /\ calls'[c].pc = "put_insert")
              => calls[c].lastJobRun = getEmailSettings.lastJobRun]_vars

\* C30 (as claimed): a scheduleNext() call does not end with scheduling
\* disabled because its read found the table emptied by a save in progress
\* whose old and new config both have recipients.
C30_ReadDuringSave ==
    [][\A c \in Slots :
          (calls[c].pc = "settings" /\ calls'[c].pc = "idle" /\ lastResult'.outcome = "disabled")
              => ~ /\ email_settings = <<>>
                   /\ \E d \in Slots : /\ calls[d].pc = "put_insert"
                                        /\ ~Blank(calls[d].existing.emails)
                                        /\ ~Blank(calls[d].body.emails)]_vars

\* C25 (as claimed): when the reschedule() of a successful save has armed its
\* timer, that timer is the only one pending, it is the one held in timeoutId
\* and it is due at the time computed from the stored config.
C25_SaveRearms ==
    [][\A c \in Slots :
          (/\ calls[c].kind = "put" /\ calls[c].pc = "settings" /\ calls'[c].pc = "idle"
           /\ lastResult'.outcome = "armed")
              => \E t \in timers' :
                    /\ timers' = {t}
                    /\ t.id = timeoutId'
                    /\ t.cb = "executeScheduledRun"
                    /\ t.fire = now + TimerDelay(getMillisecondsUntilNext(now, getEmailSettings).ms)]_vars

\* C26 (as claimed): the exit of a stopped worker that no longer holds the
\* slot leaves currentScrapingProcess and currentScrapingJob alone while the
\* worker that holds the slot is alive.
C26_ExitReleasesOwnSlot ==
    [][\A p \in 1 .. MaxQueueJobs :
          (/\ p \in 1 .. Len(procs) /\ procs[p].alive /\ ~procs'[p].alive /\ procs[p].killed
           /\ currentScrapingProcess # NoProcess /\ currentScrapingProcess # p
           /\ procs[currentScrapingProcess].alive)
              => UNCHANGED <<currentScrapingProcess, currentScrapingJob>>]_vars

\* C27 (as claimed): when the scheduleNext() called by executeScheduledRun arms
\* its timer, the computed fire time and the timer's due time are strictly
\* later than the instant of the run that has just been made.
C27_RearmStrictlyLater ==
    [][\A c \in Slots :
          (/\ calls[c].kind = "run" /\ calls[c].pc = "settings" /\ calls'[c].pc = "idle"
           /\ lastResult'.outcome = "armed")
              => /\ lastScheduledTime' > now
                 /\ \A t \in timers' : t.id = timeoutId' => t.fire > now]_vars

\* C28 (as claimed): while no request handler is suspended, currentScrapingJob
\* is set exactly when currentScrapingProcess is a worker that has not exited,
\* and the two slot tests of the endpoints give the same answer.
C28_SlotTestsAgree ==
    (\A r \in ReqSlots : reqs[r].pc = "idle")
        => /\ (currentScrapingJob # NoJob)
                <=> (currentScrapingProcess # NoProcess /\ procs[currentScrapingProcess].alive)
           /\ (currentScrapingJob # NoJob) <=> SlotBusy

\* getStatus(): the cached fields; nextRunAt is lastScheduledTime when set
getStatus ==
    [isScheduled |-> isScheduled, lastScheduledTime |-> lastScheduledTime,
     nextRunAt |-> lastScheduledTime]

\* the timer this.timeoutId refers to has not fired and was not cleared
TimerPending == timeoutId # NoTimer /\ \E t \in timers : t.id = timeoutId

\* C29 (as claimed): while no scheduler call is in progress, getStatus reports
\* isScheduled exactly when a timer is pending, and a nextRunAt only when the
\* pending timer is the run timer due at that time.
C29_StatusMatchesTimer ==
    AllIdle =>
        /\ getStatus.isScheduled <=> TimerPending
        /\ getStatus.nextRunAt # NoTime =>
               \E t \in timers : /\ t.id = timeoutId /\ t.cb = "executeScheduledRun"
                                 /\ t.fire = getStatus.nextRunAt

=============================================================================
